---- MODULE Spec2Model ----
(***************************************************************************)
(* Portfolio RAG backend: the API surface of main.py (process-wide stats,  *)
(* the RAGPipeline singleton, POST /api/chat, POST /api/reindex and the    *)
(* /ws/chat loop), the index builder initialize_pinecone and the document  *)
(* loader load_json_data.                                                  *)
(*                                                                         *)
(* The server runs on one cooperative event loop: code between two awaits  *)
(* is one atomic action.  Three specifications share the module:           *)
(*   Spec         the API surface (main.py, rag_pipeline.py)               *)
(*   SpecBuilder  one run of initialize_pinecone                           *)
(*   SpecLoader   one run of load_json_data                                *)
(***************************************************************************)
EXTENDS Integers, Sequences, FiniteSets, TLC

VARIABLES
    rag_pipeline,   \* rag_pipeline.py:103  the singleton: None or an instance id
    instances,      \* instances[i] = 0 if instance i was built lazily, k if built by the k-th successful reindex
    stats,          \* main.py:28-33
    now,            \* the wall clock, in whole seconds
    started,        \* the startup event has run
    calls,          \* what clients have done so far: calls made, connections opened, messages sent
    reindexOk,      \* number of them that returned success
    response,       \* the last response of /api/reindex
    http,           \* POST /api/chat calls
    ws,             \* /ws/chat connections
    b,              \* one run of initialize_pinecone
    ld              \* one run of load_json_data

serverVars == <<rag_pipeline, instances, stats, now, started, calls, reindexOk, response, http, ws>>
vars == <<rag_pipeline, instances, stats, now, started, calls, reindexOk, response, http, ws, b, ld>>

\* ---------------------------------------------------------------- bounds
MaxCalls == 4       \* what clients do in a run: POST /api/chat and /api/reindex calls,
                    \* /ws/chat connections opened, query messages sent on them
MaxTime == 1        \* seconds on the wall clock
MaxDocs == 12       \* files in the data directory of a builder run
MaxFiles == 2       \* files in the data directory of a loader run

Requests == 1..MaxCalls
Conns == 1..MaxCalls
Messages == {"skills?"}

None == 0           \* Python's None for the singleton
NoTime == <<>>      \* Python's None for last_reindex_time

\* ------------------------------------------------------- rag_pipeline.py
RECURSIVE Join(_, _)
\* str.join: the items with sep between consecutive ones
Join(sep, items) ==
    IF items = <<>> THEN ""
    ELSE IF Len(items) = 1 THEN items[1]
    ELSE items[1] \o sep \o Join(sep, Tail(items))

\* the documents the vector store of instance inst returns for a query
\* (test double: the store's identity is the instance's)
retrieve(inst, query) == << "store" \o ToString(inst), "about " \o query >>

format_docs(docs) == Join("\n\n", docs)

\* the inputs of the prompt template
Prompt(inst, query) == [context |-> format_docs(retrieve(inst, query)), question |-> query]

\* the fragments the model double produces for a prompt (deterministic)
ModelChunks(p) == << "On " \o p.question \o ": ", p.context >>

\* chain.stream(query): the fragments, one by one
get_response_stream(inst, query) == ModelChunks(Prompt(inst, query))

\* chain.invoke(query): the whole generated text as one string
get_response(inst, query) == Join("", ModelChunks(Prompt(inst, query)))

\* the accessor of the singleton (rag_pipeline.py:105-109): the instance id it
\* returns, given whether a construction it needs succeeds
RagPipelineAfterGet == IF rag_pipeline = None THEN Len(instances) + 1 ELSE rag_pipeline

\* state change of get_rag_pipeline() when it returns normally
get_rag_pipeline ==
    IF rag_pipeline = None
    THEN /\ instances' = Append(instances, 0)
         /\ rag_pipeline' = Len(instances) + 1
    ELSE UNCHANGED <<rag_pipeline, instances>>

\* get_rag_pipeline() raises: only when RAGPipeline() has to be built
get_rag_pipeline_raises ==
    /\ rag_pipeline = None
    /\ UNCHANGED <<rag_pipeline, instances>>

\* ---------------------------------------------------------------- main.py
RECURSIVE Pow2(_)
Pow2(n) == IF n = 0 THEN 1 ELSE 2 * Pow2(n - 1)

RECURSIVE Reduce(_)
\* the dyadic rational num / 2^exp in lowest terms
Reduce(q) ==
    IF q.exp > 0 /\ q.num % 2 = 0 THEN Reduce([num |-> q.num \div 2, exp |-> q.exp - 1]) ELSE q

\* (stats["avg_response_time"] + duration) / 2, as an exact dyadic rational
NewAvg(avg, duration) ==
    Reduce([num |-> avg.num + duration * Pow2(avg.exp), exp |-> avg.exp + 1])

\* the increment lost
IncTotalQueries_Lost(s) == s

\* stats["total_queries"] += 1
IncTotalQueries(s) == [s EXCEPT !.total_queries = @ + 1]

\* stats["avg_response_time"] = (stats["avg_response_time"] + duration) / 2
UpdateAvg(s, duration) == [s EXCEPT !.avg_response_time = NewAvg(@, duration)]

\* time.strftime("%Y-%m-%d %H:%M:%S"): the clock reading as a text
strftime(t) == <<"t=" \o ToString(t)>>

DONE == "[DONE]"

\* whole seconds the index build of a reindex call may take
Elapsed == {d \in 0..1 : now + d <= MaxTime}

\* time.time() - start_time: what a chat request takes; with a positive
\* duration every update changes the stored average
Durations == {1}

IdleRequest ==
    [pc |-> "idle", message |-> "", stream |-> FALSE, pipeline |-> None,
     next |-> 0, body |-> "", response |-> "", epoch |-> 0, updates |-> 0]

IdleConn ==
    [pc |-> "idle", pipeline |-> None, queries |-> <<>>, epochs |-> <<>>,
     next |-> 0, log |-> <<>>, raised |-> FALSE, updates |-> 0]

BuilderIdle == [pc |-> "idle"]
LoaderIdle == [pc |-> "idle"]

Init ==
    /\ rag_pipeline = None
    /\ instances = <<>>
    /\ stats = [total_queries |-> 0, avg_response_time |-> [num |-> 0, exp |-> 0],
                last_reindex_time |-> NoTime, index_status |-> "Ready (Pinecone)"]
    /\ now = 0
    /\ started = FALSE
    /\ calls = 0
    /\ reindexOk = 0
    /\ response = [endpoint |-> "none"]
    /\ http = [r \in Requests |-> IdleRequest]
    /\ ws = [c \in Conns |-> IdleConn]
    /\ b = BuilderIdle
    /\ ld = LoaderIdle

\* main.py:47-55, get_rag_pipeline() returns
StartupOk ==
    /\ ~started
    /\ started' = TRUE
    /\ get_rag_pipeline
    /\ stats' = [stats EXCEPT !.index_status = "Ready (Pinecone)", !.last_reindex_time = strftime(now)]
    /\ UNCHANGED <<now, calls, reindexOk, response, http, ws, b, ld>>

\* main.py:47-55, get_rag_pipeline() raises
StartupError ==
    /\ ~started
    /\ started' = TRUE
    /\ get_rag_pipeline_raises
    /\ stats' = [stats EXCEPT !.index_status = "Error: RAGPipeline"]
    /\ UNCHANGED <<now, calls, reindexOk, response, http, ws, b, ld>>

\* main.py:57-63: reads stats["index_status"] and the clock, changes nothing
Health ==
    /\ started
    /\ UNCHANGED vars

\* main.py:78-80: returns the stats mapping, changes nothing
GetStats ==
    /\ started
    /\ UNCHANGED vars

\* what initialize_pinecone() can do to its caller (initialize_pinecone.py:104-254)
InitializePineconeOutcomes == {"True", "False", "raise"}

\* main.py:65-74, initialize_pinecone() returned True and RAGPipeline() was built
ReindexOk ==
    /\ started
    /\ calls < MaxCalls
    /\ \E d \in Elapsed :
        /\ now' = now + d
        /\ stats' = [stats EXCEPT !.index_status = "Ready (Pinecone)", !.last_reindex_time = strftime(now + d)]
    /\ calls' = calls + 1
    /\ reindexOk' = reindexOk + 1
    /\ instances' = Append(instances, reindexOk + 1)
    /\ rag_pipeline' = Len(instances) + 1
    /\ response' = [endpoint |-> "reindex", status |-> 200, body |-> "Pinecone index rebuilt successfully"]
    /\ UNCHANGED <<started, http, ws, b, ld>>

\* a failed rebuild drops the singleton and reports the failure in the stats
ReindexFails_Resets(outcome) ==
    /\ started
    /\ calls < MaxCalls
    /\ outcome \in InitializePineconeOutcomes
    /\ \E d \in Elapsed :
        /\ now' = now + d
        /\ stats' = [stats EXCEPT !.index_status = "Error: reindex", !.last_reindex_time = strftime(now + d)]
    /\ calls' = calls + 1
    /\ rag_pipeline' = None
    /\ response' = [endpoint |-> "reindex", status |-> 500,
                    body |-> IF outcome = "False" THEN "Failed to rebuild Pinecone index"
                             ELSE "Internal Server Error"]
    /\ UNCHANGED <<instances, started, reindexOk, http, ws, b, ld>>

\* main.py:65-76, initialize_pinecone() returned False or raised, or it returned
\* True and RAGPipeline() raised at line 71
ReindexFails(outcome) ==
    /\ started
    /\ calls < MaxCalls
    /\ outcome \in InitializePineconeOutcomes
    /\ \E d \in Elapsed : now' = now + d
    /\ calls' = calls + 1
    /\ response' = [endpoint |-> "reindex", status |-> 500,
                    body |-> IF outcome = "False" THEN "Failed to rebuild Pinecone index"
                             ELSE "Internal Server Error"]
    /\ UNCHANGED <<rag_pipeline, instances, stats, started, reindexOk, http, ws, b, ld>>

\* each chunk framed as a line of its own
EventGeneratorYield_Framed(chunk) == chunk \o "\n"

\* the body fragment event_generator yields for a chunk (main.py:91-92)
EventGeneratorYield(chunk) == chunk

\* main.py:83-87 raise: get_rag_pipeline() has to build RAGPipeline() and it raises;
\* the call is answered with a server error before line 87
ChatRejected(r, msg, stream) ==
    /\ started
    /\ calls < MaxCalls
    /\ http[r].pc = "idle"
    /\ get_rag_pipeline_raises
    /\ http' = [http EXCEPT ![r] = [@ EXCEPT !.pc = "rejected", !.message = msg, !.stream = stream,
                                             !.epoch = reindexOk]]
    /\ calls' = calls + 1
    /\ UNCHANGED <<stats, now, started, reindexOk, response, ws, b, ld>>

\* main.py:83-98 with stream=true: the handler returns the StreamingResponse;
\* event_generator has not started
ChatStream(r, msg) ==
    /\ started
    /\ calls < MaxCalls
    /\ http[r].pc = "idle"
    /\ get_rag_pipeline
    /\ stats' = IncTotalQueries(stats)
    /\ http' = [http EXCEPT ![r] = [@ EXCEPT !.pc = "streaming", !.message = msg, !.stream = TRUE,
                                             !.pipeline = RagPipelineAfterGet,
                                             !.next = 1, !.epoch = reindexOk]]
    /\ calls' = calls + 1
    /\ UNCHANGED <<now, started, reindexOk, response, ws, b, ld>>

\* main.py:91-92: event_generator takes the next chunk of get_response_stream
\* and yields it into the response body
StreamChunk(r) ==
    LET req == http[r]
        chunks == get_response_stream(req.pipeline, req.message)
    IN  /\ req.pc = "streaming"
        /\ req.next <= Len(chunks)
        /\ http' = [http EXCEPT ![r] = [@ EXCEPT !.body = @ \o EventGeneratorYield(chunks[req.next]),
                                                 !.next = @ + 1]]
        /\ UNCHANGED <<rag_pipeline, instances, stats, now, started, calls, reindexOk, response, ws, b, ld>>

\* main.py:94-96: get_response_stream is exhausted, event_generator updates the
\* average and ends
StreamFinish(r) ==
    LET req == http[r]
        chunks == get_response_stream(req.pipeline, req.message)
    IN  /\ req.pc = "streaming"
        /\ req.next > Len(chunks)
        /\ \E duration \in Durations : stats' = UpdateAvg(stats, duration)
        /\ http' = [http EXCEPT ![r] = [@ EXCEPT !.pc = "done", !.updates = @ + 1]]
        /\ UNCHANGED <<rag_pipeline, instances, now, started, calls, reindexOk, response, ws, b, ld>>

\* main.py:91: get_response_stream raises (retrieval or model call fails); the
\* exception leaves event_generator before line 95
StreamRaises(r) ==
    LET req == http[r]
        chunks == get_response_stream(req.pipeline, req.message)
    IN  /\ req.pc = "streaming"
        /\ req.next <= Len(chunks)
        /\ http' = [http EXCEPT ![r] = [@ EXCEPT !.pc = "failed"]]
        /\ UNCHANGED <<rag_pipeline, instances, stats, now, started, calls, reindexOk, response, ws, b, ld>>

\* main.py:98: the client goes away while the body is streamed; the response
\* closes event_generator where it is suspended (or before it started)
StreamAbort(r) ==
    LET req == http[r]
    IN  /\ req.pc = "streaming"
        /\ http' = [http EXCEPT ![r] = [@ EXCEPT !.pc = "aborted"]]
        /\ UNCHANGED <<rag_pipeline, instances, stats, now, started, calls, reindexOk, response, ws, b, ld>>

\* main.py:83-87, 99-103 with stream=false: get_response returns
ChatInvoke(r, msg) ==
    /\ started
    /\ calls < MaxCalls
    /\ http[r].pc = "idle"
    /\ get_rag_pipeline
    /\ \E duration \in Durations : stats' = UpdateAvg(IncTotalQueries(stats), duration)
    /\ http' = [http EXCEPT ![r] = [@ EXCEPT !.pc = "done", !.message = msg, !.stream = FALSE,
                                             !.pipeline = RagPipelineAfterGet,
                                             !.response = get_response(RagPipelineAfterGet, msg),
                                             !.epoch = reindexOk, !.updates = @ + 1]]
    /\ calls' = calls + 1
    /\ UNCHANGED <<now, started, reindexOk, response, ws, b, ld>>

\* main.py:83-87, 100 with stream=false: get_response raises
ChatInvokeRaises(r, msg) ==
    /\ started
    /\ calls < MaxCalls
    /\ http[r].pc = "idle"
    /\ get_rag_pipeline
    /\ stats' = IncTotalQueries(stats)
    /\ http' = [http EXCEPT ![r] = [@ EXCEPT !.pc = "failed", !.message = msg, !.stream = FALSE,
                                             !.pipeline = RagPipelineAfterGet,
                                             !.epoch = reindexOk]]
    /\ calls' = calls + 1
    /\ UNCHANGED <<now, started, reindexOk, response, ws, b, ld>>

\* the chunks of the query a connection is serving
WsChunks(c) ==
    LET conn == ws[c]
    IN  get_response_stream(conn.pipeline, conn.queries[Len(conn.queries)])

\* a sent frame: its text, and the number of the query it was sent for
Frame(c, text) == [query |-> Len(ws[c].queries), text |-> text]

\* main.py:107-108, 111: the connection is accepted, the handler takes the
\* singleton and waits for a message
WsAccept(c) ==
    /\ started
    /\ calls < MaxCalls
    /\ ws[c].pc = "idle"
    /\ get_rag_pipeline
    /\ ws' = [ws EXCEPT ![c] = [@ EXCEPT !.pc = "receive", !.pipeline = RagPipelineAfterGet]]
    /\ calls' = calls + 1
    /\ UNCHANGED <<stats, now, started, reindexOk, response, http, b, ld>>

\* main.py:107-108: get_rag_pipeline() raises outside the try block
WsAcceptRaises(c) ==
    /\ started
    /\ calls < MaxCalls
    /\ ws[c].pc = "idle"
    /\ get_rag_pipeline_raises
    /\ ws' = [ws EXCEPT ![c] = [@ EXCEPT !.pc = "crashed"]]
    /\ calls' = calls + 1
    /\ UNCHANGED <<stats, now, started, reindexOk, response, http, b, ld>>

\* main.py:111-116: a message arrives; the handler counts it and takes the
\* first chunk, then waits in send_text (or in the send of the sentinel when
\* the stream is empty)
WsReceive(c, msg) ==
    LET conn == ws[c]
        chunks == get_response_stream(conn.pipeline, msg)
    IN  /\ conn.pc = "receive"
        /\ calls < MaxCalls
        /\ stats' = IncTotalQueries(stats)
        /\ ws' = [ws EXCEPT ![c] = [@ EXCEPT !.pc = IF chunks = <<>> THEN "sendDone" ELSE "send",
                                             !.queries = Append(@, msg),
                                             !.epochs = Append(@, reindexOk),
                                             !.next = 1]]
        /\ calls' = calls + 1
        /\ UNCHANGED <<rag_pipeline, instances, now, started, reindexOk, response, http, b, ld>>

\* main.py:111-115, 125-127: a message arrives and get_response_stream raises
\* before its first chunk; the handler closes the connection
WsReceiveRaises(c, msg) ==
    LET conn == ws[c]
    IN  /\ conn.pc = "receive"
        /\ calls < MaxCalls
        /\ stats' = IncTotalQueries(stats)
        /\ ws' = [ws EXCEPT ![c] = [@ EXCEPT !.pc = "closed", !.raised = TRUE,
                                             !.queries = Append(@, msg),
                                             !.epochs = Append(@, reindexOk),
                                             !.next = 1]]
        /\ calls' = calls + 1
        /\ UNCHANGED <<rag_pipeline, instances, now, started, reindexOk, response, http, b, ld>>

\* main.py:115-116: send_text(chunk) completes and the handler takes the next
\* chunk, or finds the stream exhausted and goes to send the sentinel
WsSendChunk(c) ==
    LET conn == ws[c]
        chunks == WsChunks(c)
    IN  /\ conn.pc = "send"
        /\ ws' = [ws EXCEPT ![c] = [@ EXCEPT !.log = Append(@, Frame(c, chunks[conn.next])),
                                             !.next = @ + 1,
                                             !.pc = IF conn.next < Len(chunks) THEN "send" ELSE "sendDone"]]
        /\ UNCHANGED <<rag_pipeline, instances, stats, now, started, calls, reindexOk, response, http, b, ld>>

\* the error path sends the sentinel before it closes
WsStreamRaises_Sentinel(c) ==
    LET conn == ws[c]
        chunks == WsChunks(c)
    IN  /\ conn.pc = "send"
        /\ conn.next < Len(chunks)
        /\ ws' = [ws EXCEPT ![c] = [@ EXCEPT !.log = Append(Append(@, Frame(c, chunks[conn.next])), Frame(c, DONE)),
                                             !.next = @ + 1, !.raised = TRUE, !.pc = "closed"]]
        /\ UNCHANGED <<rag_pipeline, instances, stats, now, started, calls, reindexOk, response, http, b, ld>>

\* main.py:115-116, 125-127: send_text(chunk) completes and get_response_stream
\* raises on the next chunk; the handler closes the connection
WsStreamRaises(c) ==
    LET conn == ws[c]
        chunks == WsChunks(c)
    IN  /\ conn.pc = "send"
        /\ conn.next < Len(chunks)
        /\ ws' = [ws EXCEPT ![c] = [@ EXCEPT !.log = Append(@, Frame(c, chunks[conn.next])),
                                             !.next = @ + 1, !.raised = TRUE, !.pc = "closed"]]
        /\ UNCHANGED <<rag_pipeline, instances, stats, now, started, calls, reindexOk, response, http, b, ld>>

\* the turn ended without its sentinel
WsSendDone_NoSentinel(c) ==
    LET conn == ws[c]
    IN  /\ conn.pc = "sendDone"
        /\ \E duration \in Durations : stats' = UpdateAvg(stats, duration)
        /\ ws' = [ws EXCEPT ![c] = [@ EXCEPT !.updates = @ + 1, !.pc = "receive"]]
        /\ UNCHANGED <<rag_pipeline, instances, now, started, calls, reindexOk, response, http, b, ld>>

\* main.py:118-121: send_text("[DONE]") completes, the handler updates the
\* average and waits for the next message
WsSendDone(c) ==
    LET conn == ws[c]
    IN  /\ conn.pc = "sendDone"
        /\ \E duration \in Durations : stats' = UpdateAvg(stats, duration)
        /\ ws' = [ws EXCEPT ![c] = [@ EXCEPT !.log = Append(@, Frame(c, DONE)),
                                             !.updates = @ + 1, !.pc = "receive"]]
        /\ UNCHANGED <<rag_pipeline, instances, now, started, calls, reindexOk, response, http, b, ld>>

\* main.py:116, 118, 123-127: the peer has gone and send_text raises; nothing
\* is sent
WsSendFails(c) ==
    LET conn == ws[c]
    IN  /\ conn.pc \in {"send", "sendDone"}
        /\ ws' = [ws EXCEPT ![c] = [@ EXCEPT !.pc = "closed"]]
        /\ UNCHANGED <<rag_pipeline, instances, stats, now, started, calls, reindexOk, response, http, b, ld>>

\* main.py:111, 123-124: the peer disconnects while the handler waits for a
\* message
WsDisconnect(c) ==
    LET conn == ws[c]
    IN  /\ conn.pc = "receive"
        /\ ws' = [ws EXCEPT ![c] = [@ EXCEPT !.pc = "disconnected"]]
        /\ UNCHANGED <<rag_pipeline, instances, stats, now, started, calls, reindexOk, response, http, b, ld>>

\* calls and connections arrive in the order of their numbers
NextRequest(r) == \A r2 \in Requests : r2 < r => http[r2].pc # "idle"
NextConn(c) == \A c2 \in Conns : c2 < c => ws[c2].pc # "idle"

Next ==
    \/ StartupOk
    \/ StartupError
    \/ Health
    \/ GetStats
    \/ ReindexOk
    \/ \E outcome \in InitializePineconeOutcomes : ReindexFails(outcome)
    \/ \E r \in Requests, msg \in Messages, stream \in BOOLEAN : NextRequest(r) /\ ChatRejected(r, msg, stream)
    \/ \E r \in Requests, msg \in Messages : NextRequest(r) /\ ChatStream(r, msg)
    \/ \E r \in Requests : StreamChunk(r)
    \/ \E r \in Requests : StreamFinish(r)
    \/ \E r \in Requests : StreamRaises(r)
    \/ \E r \in Requests : StreamAbort(r)
    \/ \E r \in Requests, msg \in Messages : NextRequest(r) /\ ChatInvoke(r, msg)
    \/ \E r \in Requests, msg \in Messages : NextRequest(r) /\ ChatInvokeRaises(r, msg)
    \/ \E c \in Conns : NextConn(c) /\ WsAccept(c)
    \/ \E c \in Conns : NextConn(c) /\ WsAcceptRaises(c)
    \/ \E c \in Conns, msg \in Messages : WsReceive(c, msg)
    \/ \E c \in Conns, msg \in Messages : WsReceiveRaises(c, msg)
    \/ \E c \in Conns : WsSendChunk(c)
    \/ \E c \in Conns : WsStreamRaises(c)
    \/ \E c \in Conns : WsSendDone(c)
    \/ \E c \in Conns : WsSendFails(c)
    \/ \E c \in Conns : WsDisconnect(c)

Spec == Init /\ [][Next]_vars

\* ------------------------------------------------ claims on the API surface
IsPrefix(s, t) == Len(s) <= Len(t) /\ s = SubSeq(t, 1, Len(s))

\* the frames of the k-th query of connection c: its fragments, then the sentinel
QueryFrames(c, k) ==
    LET chunks == get_response_stream(ws[c].pipeline, ws[c].queries[k])
    IN  [i \in 1..(Len(chunks) + 1) |->
            [query |-> k, text |-> IF i <= Len(chunks) THEN chunks[i] ELSE DONE]]

RECURSIVE TurnFrames(_, _)
\* the frames of the first k queries of connection c, in query order
TurnFrames(c, k) == IF k = 0 THEN <<>> ELSE TurnFrames(c, k - 1) \o QueryFrames(c, k)

\* C1: on a connection whose pipeline calls all succeed, the frames sent are,
\* per query and in query order, the query's fragments followed by one "[DONE]":
\* the frames sent so far are a prefix of that sequence, a query is received
\* only when every frame of the earlier queries, "[DONE]" included, has been
\* sent, and once the handler waits for a message the sequence is complete.
C1_TurnsInOrder ==
    \A c \in Conns :
        ~ws[c].raised =>
            LET n == Len(ws[c].queries)
            IN  /\ IsPrefix(ws[c].log, TurnFrames(c, n))
                /\ n > 0 => Len(ws[c].log) >= Len(TurnFrames(c, n - 1))
                /\ ws[c].pc = "receive" => ws[c].log = TurnFrames(c, n)
                /\ ws[c].pc \in {"send", "sendDone"} => Len(ws[c].log) < Len(TurnFrames(c, n))

C1_Witness ==
    \E c \in Conns :
        /\ ~ws[c].raised
        /\ ws[c].pc = "receive"
        /\ Len(ws[c].queries) = 2
        /\ Len(ws[c].log) = 6
        /\ ws[c].log[3].text = DONE /\ ws[c].log[6].text = DONE

\* the instance that served a chat request that started after the k-th
\* successful reindex (k >= 1) is the one that reindex created
ServedByLatest(inst, epoch) == epoch >= 1 => instances[inst] = epoch

\* C2: every chat request that starts after a successful reindex (a POST
\* /api/chat call, a query message on /ws/chat) is answered by the instance
\* that reindex created.
C2_ServedByNewInstance ==
    /\ \A r \in Requests :
        http[r].pc \notin {"idle", "rejected"} => ServedByLatest(http[r].pipeline, http[r].epoch)
    /\ \A c \in Conns :
        \A k \in 1..Len(ws[c].queries) : ServedByLatest(ws[c].pipeline, ws[c].epochs[k])

RECURSIVE WsQueries(_)
\* query messages received on connections 1..n
WsQueries(n) == IF n = 0 THEN 0 ELSE WsQueries(n - 1) + Len(ws[n].queries)

\* POST /api/chat calls the handler took on with a pipeline instance
ChatCalls == Cardinality({r \in Requests : http[r].pc \notin {"idle", "rejected"}})

\* C3: total_queries equals the number of chat requests accepted since process
\* start (POST /api/chat calls, streaming or not, and query messages received
\* on /ws/chat), whatever the interleaving with reindex, health and stats.
C3_TotalQueriesCountsChats == stats.total_queries = ChatCalls + WsQueries(MaxCalls)

C3_Witness ==
    /\ stats.total_queries = 2
    /\ reindexOk = 1
    /\ \E r \in Requests : http[r].pc = "streaming" /\ http[r].next = 2
    /\ \E c \in Conns : ws[c].pc = "send"

\* C4: every chat request that incremented total_queries and has ended has
\* updated avg_response_time exactly once, also when its pipeline call raised
\* or its streamed body was not drained.
C4_AvgUpdatedOncePerRequest ==
    /\ \A r \in Requests : http[r].pc \in {"done", "failed", "aborted"} => http[r].updates = 1
    /\ \A c \in Conns :
        ws[c].pc \notin {"send", "sendDone"} => ws[c].updates = Len(ws[c].queries)

\* C10: the concatenation of the fragments of a drained streaming response
\* equals what the non-streaming path returns for the same query on the same
\* instance.
C10_StreamEqualsInvoke ==
    /\ \A r \in Requests :
        (http[r].pc = "done" /\ http[r].stream) =>
            http[r].body = get_response(http[r].pipeline, http[r].message)
    /\ \A r1, r2 \in Requests :
        (/\ http[r1].pc = "done" /\ http[r1].stream
         /\ http[r2].pc = "done" /\ ~http[r2].stream
         /\ http[r1].pipeline = http[r2].pipeline
         /\ http[r1].message = http[r2].message) => http[r1].body = http[r2].response

C10_Witness ==
    \E r1, r2 \in Requests :
        /\ http[r1].pc = "done" /\ http[r1].stream
        /\ http[r2].pc = "done" /\ ~http[r2].stream
        /\ http[r1].pipeline = http[r2].pipeline
        /\ http[r1].message = http[r2].message
        /\ http[r1].body = http[r2].response
        /\ Len(http[r1].body) > 0

\* the handler of connection c has ended
Ended(c) == ws[c].pc \in {"closed", "disconnected", "crashed"}

\* connection c as its handler left it: closed on an error while its last
\* query was served (the frames of the earlier queries complete, of the last
\* one some fragments and no "[DONE]"), ended on a peer disconnect while it
\* waited for a message (every query received was answered in full), or never
\* in the loop
EndedAsClaimed(c) ==
    LET n == Len(ws[c].queries)
        log == ws[c].log
    IN  /\ ws[c].pc = "closed" =>
            /\ n >= 1
            /\ IsPrefix(log, TurnFrames(c, n))
            /\ Len(TurnFrames(c, n - 1)) <= Len(log) /\ Len(log) < Len(TurnFrames(c, n))
            /\ \A i \in 1..Len(log) : log[i].query = n => log[i].text # DONE
        /\ ws[c].pc = "disconnected" => log = TurnFrames(c, n)
        /\ ws[c].pc = "crashed" => n = 0 /\ log = <<>>

\* a step of the server: an ended handler sends and receives nothing more; the
\* step that ends a handler leaves the process, the singleton, the POST calls
\* and every other connection as they are, and adds no "[DONE]"
EndedStaysEnded ==
    \A c \in Conns :
        /\ Ended(c) => ws'[c] = ws[c]
        /\ (~Ended(c) /\ ws'[c].pc \in {"closed", "disconnected", "crashed"}) =>
            /\ \A d \in Conns \ {c} : ws'[d] = ws[d]
            /\ started' = started /\ rag_pipeline' = rag_pipeline /\ http' = http
            /\ ws'[c].pc = "disconnected" => ws[c].pc = "receive" /\ ws'[c].log = ws[c].log
            /\ ws'[c].pc = "closed" => ws[c].pc \in {"receive", "send", "sendDone"}
            /\ ws'[c].pc = "crashed" => ws[c].pc = "idle"

\* C11: the /ws/chat loop ends only by a peer disconnect or by an error.  When
\* the pipeline or a send raises while a query is served the connection is
\* closed with no "[DONE]" for that query, and nothing more is sent or received
\* on it; on a peer disconnect nothing more is sent.  The process and the
\* other connections keep running.
C11_LoopEndsByDisconnectOrError ==
    /\ [](\A c \in Conns : EndedAsClaimed(c))
    /\ [][EndedStaysEnded]_vars

C11_Witness ==
    \E c, d \in Conns :
        /\ ws[c].pc = "closed" /\ ws[c].raised
        /\ Len(ws[c].queries) = 1 /\ Len(ws[c].log) = 1
        /\ ws[d].pc = "send" /\ Len(ws[d].queries) = 1 /\ Len(ws[d].log) = 1
        /\ stats.total_queries = 2

\* a step in which a POST /api/reindex call is answered: the only call that
\* touches neither a POST /api/chat call nor a connection
ReindexAnswered == calls' = calls + 1 /\ http' = http /\ ws' = ws

\* the process state a chat request is served from
ProcessState == <<rag_pipeline, instances, stats, reindexOk, [c \in Conns |-> ws[c].pipeline]>>

\* a POST /api/chat call taken on in this step is served by the singleton of
\* before the step, when there is one
ServedBySingleton ==
    \A r \in Requests :
        (http[r].pc = "idle" /\ http'[r].pc \notin {"idle", "rejected"} /\ rag_pipeline # None) =>
            http'[r].pipeline = rag_pipeline /\ rag_pipeline' = rag_pipeline

\* C12: when initialize_pinecone returns False, POST /api/reindex answers with
\* HTTP 500 and leaves the process state as it was: the singleton is the same
\* instance, index_status, last_reindex_time, total_queries and
\* avg_response_time keep their values, and the chat requests that follow are
\* served by the instance of before the call.
C12_FailedReindexChangesNothing ==
    /\ [][ReindexFails("False") =>
            /\ response'.status = 500
            /\ response'.body = "Failed to rebuild Pinecone index"]_vars
    /\ [][(ReindexAnswered /\ response'.status = 500) => UNCHANGED ProcessState]_vars
    /\ [][ServedBySingleton]_vars

C12_Witness ==
    /\ response = [endpoint |-> "reindex", status |-> 500, body |-> "Failed to rebuild Pinecone index"]
    /\ now = 1
    /\ stats.last_reindex_time = strftime(0)
    /\ rag_pipeline # None
    /\ \E r \in Requests : http[r].pc = "done" /\ http[r].pipeline = rag_pipeline
    /\ \E c \in Conns : ws[c].pc = "receive" /\ ws[c].pipeline = rag_pipeline /\ Len(ws[c].queries) = 1

\* ------------------------------------------- initialize_pinecone.py: loader
\* JSON values as json.load returns them
JNull == [kind |-> "null"]
JNum(n) == [kind |-> "number", n |-> n]
JStr(str) == [kind |-> "string", s |-> str]
JArr(items) == [kind |-> "array", items |-> items]
\* a dict: its keys in insertion order and their values
JObj(keys, vals) == [kind |-> "object", keys |-> keys, vals |-> vals]

IsDict(v) == v.kind = "object"
IsList(v) == v.kind = "array"
IsStr(v) == v.kind = "string"

\* key in d
Has(d, key) == \E i \in 1..Len(d.keys) : d.keys[i] = key
\* d[key]
Item(d, key) == d.vals[CHOOSE i \in 1..Len(d.keys) : d.keys[i] = key]
\* d.get(key, default)
Get(d, key, default) == IF Has(d, key) THEN Item(d, key) ELSE default

\* bool(v)
Truthy(v) ==
    CASE v.kind = "null" -> FALSE
      [] v.kind = "number" -> v.n # 0
      [] v.kind = "string" -> v.s # ""
      [] v.kind = "array" -> v.items # <<>>
      [] v.kind = "object" -> v.keys # <<>>

RECURSIVE Repr(_)
\* repr(v)
Repr(v) ==
    CASE v.kind = "null" -> "None"
      [] v.kind = "number" -> ToString(v.n)
      [] v.kind = "string" -> "'" \o v.s \o "'"
      [] v.kind = "array" ->
            "[" \o Join(", ", [i \in 1..Len(v.items) |-> Repr(v.items[i])]) \o "]"
      [] v.kind = "object" ->
            "{" \o Join(", ", [i \in 1..Len(v.keys) |->
                                  "'" \o v.keys[i] \o "': " \o Repr(v.vals[i])]) \o "}"

\* str(v), as an f-string formats a value
Str(v) == IF IsStr(v) THEN v.s ELSE Repr(v)

RECURSIVE Pad(_)
\* the indentation of nesting level n
Pad(n) == IF n = 0 THEN "" ELSE "  " \o Pad(n - 1)

RECURSIVE Dumps(_, _)
\* json.dumps(v, indent=2) at nesting level n
Dumps(v, n) ==
    CASE v.kind = "null" -> "null"
      [] v.kind = "number" -> ToString(v.n)
      [] v.kind = "string" -> "\"" \o v.s \o "\""
      [] v.kind = "array" ->
            IF v.items = <<>> THEN "[]"
            ELSE "[\n" \o Join(",\n", [i \in 1..Len(v.items) |->
                                          Pad(n + 1) \o Dumps(v.items[i], n + 1)])
                       \o "\n" \o Pad(n) \o "]"
      [] v.kind = "object" ->
            IF v.keys = <<>> THEN "{}"
            ELSE "{\n" \o Join(",\n", [i \in 1..Len(v.keys) |->
                                          Pad(n + 1) \o "\"" \o v.keys[i] \o "\": "
                                                     \o Dumps(v.vals[i], n + 1)])
                       \o "\n" \o Pad(n) \o "}"

\* the outcome of a piece of code: the lines it produced, or an exception
Lines(parts) == [raised |-> FALSE, parts |-> parts]
Raised == [raised |-> TRUE, parts |-> <<>>]
Then(r1, r2) ==
    IF r1.raised \/ r2.raised THEN Raised ELSE Lines(r1.parts \o r2.parts)

RECURSIVE ConcatAll(_)
\* the outcomes of a loop's iterations, one after another
ConcatAll(rs) == IF rs = <<>> THEN Lines(<<>>) ELSE Then(rs[1], ConcatAll(Tail(rs)))

\* what a for loop over v visits: a list's items, a dict's keys; a number or
\* null is not iterable (a string's characters are not modelled)
Iterable(v) == v.kind \in {"array", "object"}
Iter(v) == IF IsList(v) THEN v.items ELSE [i \in 1..Len(v.keys) |-> JStr(v.keys[i])]

\* initialize_pinecone.py:44-50
PersonalProfileParts(data) ==
    IF ~Has(data, "personal_profile") THEN Lines(<<>>)
    ELSE LET info == Item(data, "personal_profile")
         IN  IF ~IsDict(info) THEN Raised
             ELSE IF ~IsDict(Get(info, "contact", JObj(<<>>, <<>>))) THEN Raised
             ELSE Lines(<< "Name: " \o Str(Get(info, "name", JStr(""))),
                           "Title: " \o Str(Get(info, "title", JStr(""))),
                           "Contact: " \o Str(Get(Get(info, "contact", JObj(<<>>, <<>>)), "email", JStr(""))),
                           "Location: " \o Str(Get(info, "location", JStr(""))),
                           "About: " \o Str(Get(info, "summary", JStr(""))) >>)

\* initialize_pinecone.py:56-62, one entry of professional_experience
ExperienceEntry(exp) ==
    IF ~IsDict(exp) THEN Lines(<<>>)
    ELSE LET role == Get(exp, "role", JStr(""))
             company == Get(exp, "company", JStr(""))
             achs == Get(exp, "achievements", JArr(<<>>))
         IN  IF ~(Truthy(role) /\ Truthy(company)) THEN Lines(<<>>)
             ELSE IF ~Iterable(achs) THEN Raised
             ELSE Lines(<< "- " \o Str(role) \o " at " \o Str(company) >>
                        \o [i \in 1..Len(Iter(achs)) |-> "  * " \o Str(Iter(achs)[i])])

\* initialize_pinecone.py:53-62
ExperienceParts(data) ==
    IF ~Has(data, "professional_experience") THEN Lines(<<>>)
    ELSE LET pe == Item(data, "professional_experience")
         IN  IF IsStr(pe) THEN Lines(<< "\nProfessional Experience:" >>)
             ELSE IF ~Iterable(pe) THEN Raised
             ELSE Then(Lines(<< "\nProfessional Experience:" >>),
                       ConcatAll([i \in 1..Len(Iter(pe)) |-> ExperienceEntry(Iter(pe)[i])]))

\* initialize_pinecone.py:68-72, one entry of projects
ProjectEntry(proj) ==
    IF ~IsDict(proj) THEN Lines(<<>>)
    ELSE LET name == Get(proj, "name", JStr(""))
             desc == Get(proj, "description", JStr(""))
         IN  IF Truthy(name) THEN Lines(<< "- " \o Str(name) \o ": " \o Str(desc) >>)
             ELSE Lines(<<>>)

\* initialize_pinecone.py:65-72
ProjectsParts(data) ==
    IF ~Has(data, "projects") THEN Lines(<<>>)
    ELSE LET ps == Item(data, "projects")
         IN  IF IsStr(ps) THEN Lines(<< "\nProjects:" >>)
             ELSE IF ~Iterable(ps) THEN Raised
             ELSE Then(Lines(<< "\nProjects:" >>),
                       ConcatAll([i \in 1..Len(Iter(ps)) |-> ProjectEntry(Iter(ps)[i])]))

\* initialize_pinecone.py:78-80, one category of skills
SkillsEntry(category, skills) ==
    IF ~IsList(skills) THEN Lines(<<>>)
    ELSE IF \E i \in 1..Len(skills.items) : ~IsStr(skills.items[i]) THEN Raised
    ELSE Lines(<< "- " \o category \o ": "
                  \o Join(", ", [i \in 1..Len(skills.items) |-> skills.items[i].s]) >>)

\* initialize_pinecone.py:75-80
SkillsParts(data) ==
    IF ~Has(data, "skills") THEN Lines(<<>>)
    ELSE LET sk == Item(data, "skills")
         IN  IF ~IsDict(sk) THEN Lines(<< "\nSkills:" >>)
             ELSE Then(Lines(<< "\nSkills:" >>),
                       ConcatAll([i \in 1..Len(sk.keys) |-> SkillsEntry(sk.keys[i], sk.vals[i])]))

\* initialize_pinecone.py:37-80: content_parts
ContentParts(data) ==
    IF ~IsDict(data) THEN Lines(<<>>)
    ELSE Then(PersonalProfileParts(data),
              Then(ExperienceParts(data), Then(ProjectsParts(data), SkillsParts(data))))

\* a directory entry: its name in two parts, and what json.load makes of it
FileName(f) == f.stem \o f.ext
Malformed == [kind |-> "malformed"]

\* initialize_pinecone.py:88-92: the metadata; data.get raises when data is not a dict
MetadataRaises(data) == ~IsDict(data)
Metadata(f, data) ==
    [source |-> FileName(f), type |-> "portfolio_data", name |-> Get(data, "name", JStr(f.stem))]

\* initialize_pinecone.py:28-100: the Documents one directory entry adds
LoadFile(f) ==
    IF f.ext # ".json" THEN <<>>
    ELSE IF f.content = Malformed THEN <<>>
    ELSE LET data == f.content
             cp == ContentParts(data)
         IN  IF cp.raised THEN <<>>
             ELSE IF MetadataRaises(data) THEN <<>>
             ELSE << [page_content |-> IF cp.parts = <<>> THEN Dumps(data, 0) ELSE Join("\n", cp.parts),
                      metadata |-> Metadata(f, data)] >>

RECURSIVE load_json_data(_)
\* initialize_pinecone.py:18-102 for an existing, listable directory
load_json_data(dir) == IF dir = <<>> THEN <<>> ELSE LoadFile(dir[1]) \o load_json_data(Tail(dir))

\* what the files of a data directory can hold
FileContents ==
    { Malformed,
      JNull, JNum(7), JStr("hello"),
      JArr(<< JNum(1), JStr("x") >>),
      JObj(<<>>, <<>>),
      JObj(<< "name", "note" >>, << JStr("Hammad"), JNum(7) >>),
      JObj(<< "personal_profile" >>,
           << JObj(<< "name", "contact" >>,
                   << JStr("Hammad"), JObj(<< "email" >>, << JStr("h@x.io") >>) >>) >>),
      JObj(<< "personal_profile" >>, << JStr("text") >>),
      JObj(<< "professional_experience" >>,
           << JArr(<< JObj(<< "role", "company", "achievements" >>,
                           << JStr("Engineer"), JStr("Acme"), JArr(<< JStr("shipped") >>) >>),
                      JStr("junk") >>) >>),
      JObj(<< "professional_experience" >>, << JNum(3) >>),
      JObj(<< "projects" >>,
           << JArr(<< JObj(<< "name", "description" >>, << JStr("RAG"), JStr("chat") >>) >>) >>),
      JObj(<< "skills" >>, << JObj(<< "ml" >>, << JArr(<< JStr("torch"), JStr("jax") >>) >>) >>),
      JObj(<< "skills" >>, << JObj(<< "ml" >>, << JArr(<< JNum(1) >>) >>) >>) }

\* the entries a directory can have at position i
FilesAt(i) ==
    { [stem |-> "f" \o ToString(i), ext |-> ".json", content |-> c] : c \in FileContents }
    \cup { [stem |-> "f" \o ToString(i), ext |-> ".txt", content |-> Malformed] }

RECURSIVE DirsOfLen(_)
DirsOfLen(n) ==
    IF n = 0 THEN { <<>> }
    ELSE { Append(d, f) : d \in DirsOfLen(n - 1), f \in FilesAt(n) }

\* the directory listings of a loader run
Dirs == UNION { DirsOfLen(n) : n \in 0..MaxFiles }

LoaderStart == [pc |-> "start", dir |-> <<>>, idx |-> 0, documents |-> <<>>]

\* initialize_pinecone.py:21-23: the data directory does not exist
LoaderDirMissing ==
    /\ ld.pc = "start"
    /\ ld' = [ld EXCEPT !.pc = "returned"]
    /\ UNCHANGED <<serverVars, b>>

\* initialize_pinecone.py:25-27: os.listdir lists the directory
LoaderListdir(dir) ==
    /\ ld.pc = "start"
    /\ ld' = [ld EXCEPT !.pc = "files", !.dir = dir, !.idx = 1]
    /\ UNCHANGED <<serverVars, b>>

\* initialize_pinecone.py:27: os.listdir raises (the path is not a directory,
\* or cannot be read); nothing in load_json_data catches it
LoaderListdirRaises ==
    /\ ld.pc = "start"
    /\ ld' = [ld EXCEPT !.pc = "raised"]
    /\ UNCHANGED <<serverVars, b>>

\* initialize_pinecone.py:27-100: one iteration of the loop over the listing
LoaderFile ==
    /\ ld.pc = "files"
    /\ ld.idx <= Len(ld.dir)
    /\ ld' = [ld EXCEPT !.documents = @ \o LoadFile(ld.dir[ld.idx]), !.idx = @ + 1]
    /\ UNCHANGED <<serverVars, b>>

\* initialize_pinecone.py:102
LoaderReturn ==
    /\ ld.pc = "files"
    /\ ld.idx > Len(ld.dir)
    /\ ld' = [ld EXCEPT !.pc = "returned"]
    /\ UNCHANGED <<serverVars, b>>

InitLoader ==
    /\ rag_pipeline = None
    /\ instances = <<>>
    /\ stats = [total_queries |-> 0, avg_response_time |-> [num |-> 0, exp |-> 0],
                last_reindex_time |-> NoTime, index_status |-> "Ready (Pinecone)"]
    /\ now = 0
    /\ started = FALSE
    /\ calls = 0
    /\ reindexOk = 0
    /\ response = [endpoint |-> "none"]
    /\ http = [r \in Requests |-> IdleRequest]
    /\ ws = [c \in Conns |-> IdleConn]
    /\ b = BuilderIdle
    /\ ld = LoaderStart

NextLoader ==
    \/ LoaderDirMissing
    \/ \E dir \in Dirs : LoaderListdir(dir)
    \/ LoaderListdirRaises
    \/ LoaderFile
    \/ LoaderReturn

SpecLoader == InitLoader /\ [][NextLoader]_vars

\* the .json files of the listing that have been processed
Processed == IF ld.pc = "returned" THEN 1..Len(ld.dir) ELSE 1..(ld.idx - 1)

\* the Documents made from file f
DocumentsOf(f) ==
    {i \in 1..Len(ld.documents) : ld.documents[i].metadata.source = FileName(f)}

\* a parseable JSON file whose record has none of the four recognized sections
NoSection(f) ==
    /\ f.ext = ".json"
    /\ f.content # Malformed
    /\ IsDict(f.content) =>
        \A key \in {"personal_profile", "professional_experience", "projects", "skills"} :
            ~Has(f.content, key)

\* C9: every parseable JSON file without a recognized section, whatever its
\* top-level shape, yields exactly one Document, whose content is the formatted
\* JSON of the record and whose metadata.source is the file name.
C9_FallbackDocument ==
    ld.pc \in {"files", "returned"} =>
        \A k \in Processed :
            NoSection(ld.dir[k]) =>
                /\ Cardinality(DocumentsOf(ld.dir[k])) = 1
                /\ \A i \in DocumentsOf(ld.dir[k]) :
                    ld.documents[i].page_content = Dumps(ld.dir[k].content, 0)

\* ------------------------------------------ initialize_pinecone.py: builder
PINECONE_INDEX_NAME == "greyfang"
ExpectedDimension == 1024
batch_size == 5
NoDimension == 0    \* stats.get('dimension') is None

\* what list_indexes() and describe_index_stats() can report
IndexLists == { <<>>, << "other" >>, << "other", "greyfang" >> }
Dimensions == { NoDimension, 768, 1024 }

Min(x, y) == IF x <= y THEN x ELSE y

\* a data directory of n files, each giving one Document
GoodFile(k) ==
    [stem |-> "f" \o ToString(k), ext |-> ".json",
     content |-> JObj(<< "name" >>, << JStr("doc" \o ToString(k)) >>)]
GoodDir(n) == [k \in 1..n |-> GoodFile(k)]

\* a directory whose first three entries give no Document
MixedDir ==
    << [stem |-> "notes", ext |-> ".txt", content |-> Malformed],
       [stem |-> "broken", ext |-> ".json", content |-> Malformed],
       [stem |-> "list", ext |-> ".json", content |-> JArr(<< JNum(1) >>)],
       GoodFile(4) >>

BuilderDirs == { GoodDir(n) : n \in 0..MaxDocs } \cup { MixedDir, SubSeq(MixedDir, 1, 3) }

BuilderStart ==
    [pc |-> "check_key", passed |-> <<>>, api_key |-> "unread", listed |-> FALSE, indexes |-> <<>>,
     dimension |-> -1, loaded |-> FALSE, documents |-> <<>>, i |-> 0, uploads |-> <<>>,
     delays |-> 0, verified |-> "no", result |-> "None"]

\* return False
ReturnFalse(st) == [st EXCEPT !.pc = "returned", !.result = "False"]

\* initialize_pinecone.py:108-113
CheckApiKey(present) ==
    /\ b.pc = "check_key"
    /\ b' = IF present
            THEN [b EXCEPT !.pc = "client", !.api_key = "set", !.passed = Append(@, "api_key")]
            ELSE ReturnFalse([b EXCEPT !.api_key = "missing"])
    /\ UNCHANGED <<serverVars, ld>>

\* initialize_pinecone.py:116-121
InitClient(raises) ==
    /\ b.pc = "client"
    /\ b' = IF raises THEN ReturnFalse(b) ELSE [b EXCEPT !.pc = "list_indexes"]
    /\ UNCHANGED <<serverVars, ld>>

\* initialize_pinecone.py:124-136: the index is looked up in the service's list
CheckIndexExists(existing_indexes) ==
    /\ b.pc = "list_indexes"
    /\ b' = IF \E k \in 1..Len(existing_indexes) : existing_indexes[k] = PINECONE_INDEX_NAME
            THEN [b EXCEPT !.pc = "describe", !.listed = TRUE, !.indexes = existing_indexes,
                           !.passed = Append(@, "index")]
            ELSE ReturnFalse([b EXCEPT !.listed = TRUE, !.indexes = existing_indexes])
    /\ UNCHANGED <<serverVars, ld>>

\* the dimension check passes whatever the index reports
DimensionOk_Any(dimension) == TRUE

\* initialize_pinecone.py:148
DimensionOk(dimension) == dimension = ExpectedDimension

\* initialize_pinecone.py:139-150
CheckDimension(dimension) ==
    /\ b.pc = "describe"
    /\ b' = IF DimensionOk(dimension)
            THEN [b EXCEPT !.pc = "load", !.dimension = dimension, !.passed = Append(@, "dimension")]
            ELSE ReturnFalse([b EXCEPT !.dimension = dimension])
    /\ UNCHANGED <<serverVars, ld>>

\* initialize_pinecone.py:124-154: list_indexes, Index or describe_index_stats raises
CheckIndexRaises ==
    /\ b.pc \in {"list_indexes", "describe"}
    /\ b' = ReturnFalse(b)
    /\ UNCHANGED <<serverVars, ld>>

\* initialize_pinecone.py:157-162: load_json_data() lists the directory
LoadDocuments(dir) ==
    /\ b.pc = "load"
    /\ LET documents == load_json_data(dir)
       IN  b' = IF documents = <<>>
                THEN ReturnFalse([b EXCEPT !.loaded = TRUE])
                ELSE [b EXCEPT !.pc = "embeddings", !.loaded = TRUE, !.documents = documents,
                               !.passed = Append(@, "documents")]
    /\ UNCHANGED <<serverVars, ld>>

\* initialize_pinecone.py:157-160 with 21-23: the data directory does not exist
LoadDocumentsDirMissing ==
    /\ b.pc = "load"
    /\ b' = ReturnFalse([b EXCEPT !.loaded = TRUE])
    /\ UNCHANGED <<serverVars, ld>>

\* initialize_pinecone.py:157 with 27: os.listdir raises in load_json_data();
\* line 157 is in no try block, the exception leaves initialize_pinecone
LoadDocumentsRaises ==
    /\ b.pc = "load"
    /\ b' = [b EXCEPT !.pc = "raised"]
    /\ UNCHANGED <<serverVars, ld>>

\* initialize_pinecone.py:164-187, 250-254
SetupEmbeddings(raises) ==
    /\ b.pc = "embeddings"
    /\ b' = IF raises THEN ReturnFalse(b) ELSE [b EXCEPT !.pc = "upload", !.i = 0]
    /\ UNCHANGED <<serverVars, ld>>

\* the slice one short: documents[i:i + batch_size - 1]
BatchDocs_Short(documents, i) ==
    SubSeq(documents, i + 1, Min(i + batch_size - 1, Len(documents)))

\* initialize_pinecone.py:190: documents[i:i + batch_size]
BatchDocs(documents, i) == SubSeq(documents, i + 1, Min(i + batch_size, Len(documents)))

\* initialize_pinecone.py:189: the loop goes on to the next i, or ends
NextBatch(st) ==
    IF st.i + batch_size < Len(st.documents)
    THEN [st EXCEPT !.i = @ + batch_size]
    ELSE [st EXCEPT !.i = @ + batch_size, !.pc = "verify"]

\* initialize_pinecone.py:189-205: from_documents uploads the batch
UploadBatch ==
    /\ b.pc = "upload"
    /\ b' = NextBatch([b EXCEPT
                !.uploads = Append(@, [docs |-> BatchDocs(b.documents, b.i), ok |-> TRUE]),
                !.delays = IF b.i + batch_size < Len(b.documents) THEN @ + 1 ELSE @])
    /\ UNCHANGED <<serverVars, ld>>

\* a failing batch ends the run
UploadBatchRaises_Abort ==
    /\ b.pc = "upload"
    /\ b' = ReturnFalse([b EXCEPT
                !.uploads = Append(@, [docs |-> BatchDocs(b.documents, b.i), ok |-> FALSE])])
    /\ UNCHANGED <<serverVars, ld>>

\* initialize_pinecone.py:189-200, 207-210: from_documents raises, the loop continues
UploadBatchRaises ==
    /\ b.pc = "upload"
    /\ b' = NextBatch([b EXCEPT
                !.uploads = Append(@, [docs |-> BatchDocs(b.documents, b.i), ok |-> FALSE])])
    /\ UNCHANGED <<serverVars, ld>>

\* initialize_pinecone.py:212-248: the smoke-test queries, which may raise
Verify(raises) ==
    /\ b.pc = "verify"
    /\ b' = [b EXCEPT !.pc = "returned", !.result = "True",
                      !.verified = IF raises THEN "failed" ELSE "done"]
    /\ UNCHANGED <<serverVars, ld>>

InitBuilder ==
    /\ rag_pipeline = None
    /\ instances = <<>>
    /\ stats = [total_queries |-> 0, avg_response_time |-> [num |-> 0, exp |-> 0],
                last_reindex_time |-> NoTime, index_status |-> "Ready (Pinecone)"]
    /\ now = 0
    /\ started = FALSE
    /\ calls = 0
    /\ reindexOk = 0
    /\ response = [endpoint |-> "none"]
    /\ http = [r \in Requests |-> IdleRequest]
    /\ ws = [c \in Conns |-> IdleConn]
    /\ b = BuilderStart
    /\ ld = LoaderIdle

NextBuilder ==
    \/ \E present \in BOOLEAN : CheckApiKey(present)
    \/ \E raises \in BOOLEAN : InitClient(raises)
    \/ \E existing_indexes \in IndexLists : CheckIndexExists(existing_indexes)
    \/ \E dimension \in Dimensions : CheckDimension(dimension)
    \/ CheckIndexRaises
    \/ \E dir \in BuilderDirs : LoadDocuments(dir)
    \/ LoadDocumentsDirMissing
    \/ LoadDocumentsRaises
    \/ \E raises \in BOOLEAN : SetupEmbeddings(raises)
    \/ UploadBatch
    \/ UploadBatchRaises
    \/ \E raises \in BOOLEAN : Verify(raises)

SpecBuilder == InitBuilder /\ [][NextBuilder]_vars

\* -------------------------------------------------- claims on the builder
\* a pre-check has failed on what the run has read so far
PreCheckFailed ==
    \/ b.api_key = "missing"
    \/ b.listed /\ \A k \in 1..Len(b.indexes) : b.indexes[k] # PINECONE_INDEX_NAME
    \/ b.dimension \notin {-1, 1024}
    \/ b.loaded /\ b.documents = <<>>

\* C5: when a pre-check fails (API key missing, index not listed, dimension not
\* 1024, no documents) the run has returned False without an upload call; an
\* upload call happens only after the four checks have passed, in that order.
C5_NoUploadUnlessChecked ==
    /\ PreCheckFailed => (b.pc = "returned" /\ b.result = "False" /\ b.uploads = <<>>)
    /\ b.uploads # <<>> =>
        /\ b.passed = << "api_key", "index", "dimension", "documents" >>
        /\ b.api_key = "set"
        /\ \E k \in 1..Len(b.indexes) : b.indexes[k] = PINECONE_INDEX_NAME
        /\ b.dimension = 1024
        /\ b.documents # <<>>

C5_Witness ==
    /\ b.pc = "returned"
    /\ b.passed = << "api_key", "index" >>
    /\ b.dimension = 768
    /\ b.result = "False"
    /\ b.uploads = <<>>

\* ceil(n / 5)
NumBatches(n) == (n + 4) \div 5

\* the j-th consecutive slice of at most 5 documents
Slice(j) == SubSeq(b.documents, 5 * (j - 1) + 1, Min(5 * j, Len(b.documents)))

RECURSIVE UploadedDocs(_)
\* the documents of the first k upload calls, in call order
UploadedDocs(k) == IF k = 0 THEN <<>> ELSE UploadedDocs(k - 1) \o b.uploads[k].docs

\* the upload loop has run to its end
LoopDone == b.pc = "verify" \/ (b.pc = "returned" /\ b.result = "True")

\* C6: for n loaded documents the upload calls are made one after another, the
\* j-th carrying the j-th consecutive slice of 1 to 5 documents; when the loop
\* ends there have been exactly ceil(n/5) calls and their batches, in order,
\* make up the document list.
C6_ConsecutiveBatches ==
    /\ \A j \in 1..Len(b.uploads) :
        /\ b.uploads[j].docs = Slice(j)
        /\ Len(b.uploads[j].docs) \in 1..5
    /\ b.pc = "upload" =>
        /\ 5 * Len(b.uploads) = b.i
        /\ Len(b.uploads) < NumBatches(Len(b.documents))
    /\ LoopDone =>
        /\ Len(b.uploads) = NumBatches(Len(b.documents))
        /\ UploadedDocs(Len(b.uploads)) = b.documents

C6_Witness ==
    /\ b.pc = "returned"
    /\ Len(b.documents) = 12
    /\ Len(b.uploads) = 3
    /\ Len(b.uploads[1].docs) = 5 /\ Len(b.uploads[2].docs) = 5 /\ Len(b.uploads[3].docs) = 2

\* C7: when upload calls raise, every later batch is still attempted, no batch
\* is attempted twice, and the run returns True, whichever batches failed.
C7_FailedBatchSkipped ==
    (\E j \in 1..Len(b.uploads) : ~b.uploads[j].ok) =>
        /\ b.pc \in {"upload", "verify", "returned"}
        /\ \A j, k \in 1..Len(b.uploads) : j # k => b.uploads[j].docs # b.uploads[k].docs
        /\ b.pc = "upload" => Len(b.uploads) < NumBatches(Len(b.documents))
        /\ b.pc \in {"verify", "returned"} => Len(b.uploads) = NumBatches(Len(b.documents))
        /\ b.pc = "returned" => b.result = "True"

C7_Witness ==
    /\ b.pc = "returned"
    /\ b.result = "True"
    /\ Len(b.uploads) = 3
    /\ b.uploads[1].ok /\ ~b.uploads[2].ok /\ b.uploads[3].ok

\* C8: no exception leaves initialize_pinecone: every run ends by returning a
\* boolean, and a failing smoke test leaves the result True.
C8_NeverRaises ==
    /\ b.pc # "raised"
    /\ b.pc = "returned" => b.result \in {"True", "False"}
    /\ b.verified = "failed" => b.result = "True"

====
